---- MODULE Spec2Model ----
(***************************************************************************)
(* Relay server "anchor": the session registry (Server), its connection    *)
(* handlers, the maintenance goroutines and the operator console, as a     *)
(* state machine.  One action per critical section or blocking call of     *)
(* src/server.go and src/main.go.  Client and Room methods whose bodies    *)
(* are not part of the two source files (disconnect, handlePacket,         *)
(* findOrCreateTeam, GetLastActivity, NewRoom, the sends) follow spec.md.   *)
(***************************************************************************)
EXTENDS Integers, Sequences, FiniteSets, TLC

\* ------------------------------------------------------------- bounds
\* number of TCP connections accepted during a run
MaxConns == 2
\* the clock runs from 0 to MaxTime ticks
MaxTime == 1
\* number of commands typed at the console during a run
MaxCommands == 1

\* ---------------------------------------------------- program constants
\* client ids are uint64 and wrap; the model keeps the wrap at a small width
IdModulus == 4
\* INACTIVITY_TIMEOUT in clock ticks: a room is idle for too long once the
\* clock has moved on from its last activity.  HEARTBEAT (30 s) is below the
\* clock's resolution, so a session's own activity time is not kept
INACTIVITY_TIMEOUT == 0
\* NewServer's initial nextClientId
InitialNextClientId == 1

Ids == 0 .. (IdModulus - 1)
Conns == 1 .. MaxConns
RoomIds == {"r1", "r2"}
TeamIds == {"red", "blue"}

VARIABLES
    proc,           \* the process: "running" | "crashed" | "exited"
    now,            \* the clock
    file,           \* stats.json: [ok, gamesComplete, nextClientId]
    loaded,         \* parseStats has run
    onlineClients,  \* Server.onlineClients: id -> the room object holding the session
    rooms,          \* Server.rooms: roomId -> the room object registered (0: none)
    gamesCompleted, \* Server.gamesCompleted
    nextClientId,   \* Server.nextClientId
    smu,            \* Server.mu: the task holding it
    robj,           \* the Room objects constructed for each roomId, oldest first
    pc,             \* handleConnection: position of each connection's goroutine
    packet,         \* handleConnection: the packet of the current loop iteration
    client,         \* handleConnection: the local variable client
    fclientId,      \* findOrCreateClient: the local variable clientId
    froom,          \* findOrCreateClient: the local variable room
    connClosed,     \* conn.Close() has been called on the connection
    events,         \* per connection: the lifecycle events so far
    sweepTodo,      \* cleanupInactiveRooms: the rooms its range loop has yet to visit
    hbTodo,         \* heartbeat: the online sessions its range loop has yet to visit
    hbCur,          \* heartbeat: the session whose lock it holds
    hbWrite,        \* heartbeat: client.sendPacket is writing to hbCur's connection
    opPc,           \* processStdin: position in the current command
    opRoom,         \* processStdin: the room whose lock it holds
    opTodo,         \* processStdin: what the outer range loop has yet to visit
    opClients,      \* processStdin list: the clients of opRoom yet to visit
    opTarget,       \* processStdin disable, message: the local variable client
    opLeft,         \* processStdin: the commands stdin has yet to deliver
    dis,            \* the sendDisable goroutines: <<session, stage>>
    faulted,        \* the goroutines that panicked: their recover() sends on errChan
    received,       \* main: the goroutine whose error <-errChan returned
    down,           \* main, stop: how far each shutdown sequence has run
    shutlog         \* the steps of the shutdown sequences, in the order they ran

supVars == <<faulted, received, down, shutlog>>
envVars == <<proc, now, file, loaded, supVars>>
registry == <<onlineClients, rooms, gamesCompleted, nextClientId, robj>>
connVars == <<pc, packet, client, fclientId, froom, connClosed, events>>
hbVars == <<hbTodo, hbCur, hbWrite>>
opVars == <<opPc, opRoom, opTodo, opClients, opTarget, opLeft>>
vars == <<envVars, registry, smu, connVars, sweepTodo, hbVars, opVars, dis>>

\* ------------------------------------------------------------- values
Free == <<"free", 0>>
Triggers == {"signal", "error", "stop"}
ConnTask(c) == <<"handleConnection", c>>
SweepTask == <<"cleanupInactiveRooms", 0>>
HeartbeatTask == <<"heartbeat", 0>>
OpTask == <<"processStdin", 0>>

\* a room object is named <<roomId, n>>: the n-th Room constructed for roomId;
\* a session is named <<roomId, n, id>>: the Client under key id of that room
NoRoom == <<"", 0>>
NilClient == <<"", 0, 0>>
Room(ref) == robj[ref[1]][ref[2]]
Sess(ref) == robj[ref[1]][ref[2]].clients[ref[3]]
HasSess(ro, id) == id \in DOMAIN Room(ro).clients
RoomOf(ref) == <<ref[1], ref[2]>>
SessOf(ro, id) == <<ro[1], ro[2], id>>
\* the room objects constructed so far, and the ones registered in Server.rooms
RoomObjects == {ro \in RoomIds \X (1 .. MaxConns) : ro[2] <= Len(robj[ro[1]])}
Registered == {ro \in RoomObjects : rooms[ro[1]] = ro[2]}
Sessions == {x \in RoomIds \X (1 .. MaxConns) \X Ids :
                RoomOf(x) \in RoomObjects /\ HasSess(RoomOf(x), x[3])}
\* the sessions in the online-client mapping
Online == {SessOf(onlineClients[id], id) : id \in {i \in Ids : onlineClients[i] # NoRoom}}

NoPacket == [kind |-> "none", clientId |-> 0, roomId |-> "", teamId |-> ""]
Packet(k) == [kind |-> k, clientId |-> 0, roomId |-> "", teamId |-> ""]
HandshakePackets ==
    [kind : {"HANDSHAKE"}, clientId : Ids, roomId : RoomIds, teamId : TeamIds]

\* stats.json at startup: missing or unreadable, or what an earlier run saved
StatsFiles ==
    {[ok |-> FALSE, gamesComplete |-> 0, nextClientId |-> 0],
     [ok |-> TRUE, gamesComplete |-> 1, nextClientId |-> IdModulus - 1]}

\* ---------------------------------------------------------------- locks
\* Server.mu, a Room's mu, a Client's mu
ServerLock == <<"server", "", 0, 0>>
RoomLock(ro) == <<"room", ro[1], ro[2], 0>>
ClientLock(x) == <<"client", x[1], x[2], x[3]>>
Level(l) == CASE l[1] = "server" -> 1 [] l[1] = "room" -> 2 [] l[1] = "client" -> 3

Holder(l) ==
    CASE l[1] = "server" -> smu
      [] l[1] = "room" -> Room(<<l[2], l[3]>>).mu
      [] l[1] = "client" -> Sess(<<l[2], l[3], l[4]>>).mu

\* every lock a step is about to take is free
Available(locks) == \A l \in locks : Holder(l) = Free

\* ------------------------------------------------------------ NewServer
Init ==
    /\ proc = "running"
    /\ now = 0
    /\ file \in StatsFiles
    /\ loaded = FALSE
    /\ onlineClients = [i \in Ids |-> NoRoom]
    /\ rooms = [r \in RoomIds |-> 0]
    /\ gamesCompleted = 0
    /\ nextClientId = InitialNextClientId
    /\ smu = Free
    /\ robj = [r \in RoomIds |-> << >>]
    /\ pc = [c \in Conns |-> "read"]
    /\ packet = [c \in Conns |-> NoPacket]
    /\ client = [c \in Conns |-> NilClient]
    /\ fclientId = [c \in Conns |-> 0]
    /\ froom = [c \in Conns |-> NoRoom]
    /\ connClosed = [c \in Conns |-> FALSE]
    /\ events = [c \in Conns |-> << >>]
    /\ sweepTodo = {}
    /\ hbTodo = {}
    /\ hbCur = NilClient
    /\ opPc = "prompt"
    /\ opRoom = NoRoom
    /\ opTodo = {}
    /\ opClients = {}
    /\ opTarget = NilClient
    /\ opLeft = MaxCommands
    /\ dis = {}
    /\ hbWrite = FALSE
    /\ faulted = {}
    /\ received = Free
    /\ down = [k \in Triggers |-> "idle"]
    /\ shutlog = << >>

\* ------------------------------------------------------------ parseStats
\* gjson.Get(...).Int() of a document that could not be read is 0
StatsField(f, name) == IF f.ok THEN f[name] ELSE 0

ParseStats ==
    /\ proc = "running"
    /\ ~loaded
    /\ Available({ServerLock})
    /\ gamesCompleted' = StatsField(file, "gamesComplete")
    /\ nextClientId' = StatsField(file, "nextClientId")
    /\ loaded' = TRUE
    /\ UNCHANGED <<proc, now, file, supVars, onlineClients, rooms, robj, smu, connVars,
                   sweepTodo, hbVars, opVars, dis>>

\* ------------------------------------------------- handleConnection: read
others == <<envVars, sweepTodo, hbVars, opVars, dis>>

\* the packet types that reach lines 209-221
Typed == {"HANDSHAKE", "OTHER"}

\* the locks the next step of a connection's goroutine takes
ConnNeeds(c) ==
    CASE pc[c] \in {"foc_alloc", "foc_room", "foc_online", "disc_online"} ->
            {ServerLock}
      [] pc[c] = "foc_rlock" -> {RoomLock(froom[c])}
      [] pc[c] = "foc_attach" ->
            IF HasSess(froom[c], fclientId[c])
            THEN {ClientLock(SessOf(froom[c], fclientId[c]))} ELSE {}
      [] pc[c] \in {"hs_broadcast", "hs_roomstate", "handle_broadcast",
                    "disc_broadcast"} -> {RoomLock(RoomOf(client[c]))}
      [] pc[c] = "packet" /\ client[c] # NilClient /\ packet[c].kind \in Typed ->
            {ClientLock(client[c])}
      [] pc[c] = "disc_conn" -> {ClientLock(client[c])}
      [] OTHER -> {}

\* scanner.Scan() returns true: packet := scanner.Text().  The fields of a
\* packet are read by findOrCreateClient alone, so once client != nil only the
\* type of a packet is kept
Scan(c, P) ==
    /\ proc = "running"
    /\ pc[c] = "read"
    /\ ~connClosed[c]
    /\ \E p \in P :
          packet' = [packet EXCEPT ![c] =
                        IF client[c] = NilClient THEN p ELSE Packet(p.kind)]
    /\ pc' = [pc EXCEPT ![c] = "packet"]
    /\ UNCHANGED <<registry, smu, client, fclientId, froom, connClosed, events, others>>

\* continue: the next iteration of the read loop
NextPacket(c) ==
    /\ pc' = [pc EXCEPT ![c] = "read"]
    /\ packet' = [packet EXCEPT ![c] = NoPacket]

\* !gjson.Valid(packet), or no type field: logged, continue
Malformed(c) ==
    /\ proc = "running"
    /\ pc[c] = "packet"
    /\ packet[c].kind \in {"invalid", "notype"}
    /\ NextPacket(c)
    /\ UNCHANGED <<registry, smu, client, fclientId, froom, connClosed, events, others>>

\* STATS: a reply built from the counters, read without Server.mu; continue
Stats(c) ==
    /\ proc = "running"
    /\ pc[c] = "packet"
    /\ packet[c].kind = "STATS"
    /\ NextPacket(c)
    /\ UNCHANGED <<registry, smu, client, fclientId, froom, connClosed, events, others>>

\* a handler that lets any packet type through to the handshake
HandshakeNeverRequired(k) == FALSE

\* line 210: the packet types refused while client == nil
HandshakeRequired(k) == k # "HANDSHAKE"

BeforeHandshake(c) ==
    /\ proc = "running"
    /\ pc[c] = "packet"
    /\ packet[c].kind \in Typed
    /\ client[c] = NilClient
    /\ HandshakeRequired(packet[c].kind)
    /\ NextPacket(c)
    /\ UNCHANGED <<registry, smu, client, fclientId, froom, connClosed, events, others>>

\* client == nil and the packet is a HANDSHAKE: enter findOrCreateClient,
\* clientId := gjson.Get(packet, "clientId").Uint()
Handshake(c) ==
    /\ proc = "running"
    /\ pc[c] = "packet"
    /\ packet[c].kind \in Typed
    /\ client[c] = NilClient
    /\ ~HandshakeRequired(packet[c].kind)
    /\ fclientId' = [fclientId EXCEPT ![c] = packet[c].clientId]
    /\ pc' = [pc EXCEPT ![c] = "foc_alloc"]
    /\ UNCHANGED <<registry, smu, packet, client, froom, connClosed, events, others>>

\* ------------------------------------------------------ findOrCreateClient
\* s.nextClientId++, and once more if it has wrapped to 0
Advance(n) ==
    LET m == (n + 1) % IdModulus IN IF m = 0 THEN (m + 1) % IdModulus ELSE m

\* the collision loop: <<clientId, nextClientId>> once clientId is not online
RECURSIVE AvoidOnline(_, _, _, _)
AvoidOnline(id, next, online, fuel) ==
    IF online[id] = NoRoom \/ fuel = 0
    THEN <<id, next>>
    ELSE AvoidOnline(next, Advance(next), online, fuel - 1)

\* lines 242-265, under Server.mu
AllocateId(claimed, next, online) ==
    IF claimed = 0
    THEN AvoidOnline(next, Advance(next), online, IdModulus)
    ELSE AvoidOnline(claimed, next, online, IdModulus)

FocAllocate(c) ==
    /\ proc = "running"
    /\ pc[c] = "foc_alloc"
    /\ Available(ConnNeeds(c))
    /\ LET r == AllocateId(fclientId[c], nextClientId, onlineClients) IN
          /\ fclientId' = [fclientId EXCEPT ![c] = r[1]]
          /\ nextClientId' = r[2]
    /\ pc' = [pc EXCEPT ![c] = "foc_room"]
    /\ UNCHANGED <<onlineClients, rooms, gamesCompleted, robj, smu, packet, client,
                   froom, connClosed, events, others>>

\* NewRoom: an empty room whose last activity is its construction time
NewRoom(roomId, t) ==
    [id |-> roomId, clients |-> << >>, lastActivity |-> t, mu |-> Free]

\* findOrCreateRoom, under Server.mu
FocRoom(c) ==
    /\ proc = "running"
    /\ pc[c] = "foc_room"
    /\ Available(ConnNeeds(c))
    /\ LET roomId == packet[c].roomId IN
          IF rooms[roomId] # 0
          THEN /\ froom' = [froom EXCEPT ![c] = <<roomId, rooms[roomId]>>]
               /\ UNCHANGED <<rooms, robj>>
          ELSE /\ robj' = [robj EXCEPT ![roomId] = Append(@, NewRoom(roomId, now))]
               /\ rooms' = [rooms EXCEPT ![roomId] = Len(robj[roomId]) + 1]
               /\ froom' = [froom EXCEPT ![c] = <<roomId, Len(robj[roomId]) + 1>>]
    /\ pc' = [pc EXCEPT ![c] = "foc_rlock"]
    /\ UNCHANGED <<onlineClients, gamesCompleted, nextClientId, smu, packet, client,
                   fclientId, connClosed, events, others>>

\* room.findOrCreateTeam (a lookup by team id under the room's lock), then
\* room.mu.Lock() at line 270
FocLockRoom(c) ==
    /\ proc = "running"
    /\ pc[c] = "foc_rlock"
    /\ Available(ConnNeeds(c))
    /\ robj' = [robj EXCEPT ![froom[c][1]][froom[c][2]].mu = ConnTask(c)]
    /\ pc' = [pc EXCEPT ![c] = "foc_attach"]
    /\ UNCHANGED <<onlineClients, rooms, gamesCompleted, nextClientId, smu, packet,
                   client, fclientId, froom, connClosed, events, others>>

\* the clientState of the packet with its clientId set
ClientState(c, id) == [from |-> c, clientId |-> id]

\* a reconnect that leaves the old connection handle in the session
ReattachedKeepingConn(s, c, id, team, t) ==
    [s EXCEPT !.state = ClientState(c, id), !.team = team]

\* the session after the in-place update of lines 275-280
Reattached(s, c, id, team, t) ==
    [s EXCEPT !.conn = c, !.state = ClientState(c, id), !.team = team]

\* the Client constructed at lines 282-290
NewClient(c, id, team, t) ==
    [conn |-> c, state |-> ClientState(c, id), team |-> team, mu |-> Free]

\* a findOrCreateClient that returns with room.mu still held
RoomLeftLocked(r) == r

\* room.mu.Unlock() at line 293
RoomUnlocked(r) == [r EXCEPT !.mu = Free]

\* lines 272-293, holding room.mu; the reconnect branch also takes client.mu
FocAttach(c) ==
    /\ proc = "running"
    /\ pc[c] = "foc_attach"
    /\ Available(ConnNeeds(c))
    /\ LET ro == froom[c]
           id == fclientId[c]
           team == packet[c].teamId
           attached ==
               IF HasSess(ro, id)
               THEN [Room(ro) EXCEPT
                        !.clients[id] = Reattached(@, c, id, team, now)]
               ELSE [Room(ro) EXCEPT
                        !.clients = (id :> NewClient(c, id, team, now)) @@ @]
       IN  /\ robj' = [robj EXCEPT ![ro[1]][ro[2]] = RoomUnlocked(attached)]
           /\ client' = [client EXCEPT ![c] = <<ro[1], ro[2], id>>]
    /\ events' = [events EXCEPT ![c] = Append(@, "room")]
    /\ pc' = [pc EXCEPT ![c] = "foc_online"]
    /\ UNCHANGED <<onlineClients, rooms, gamesCompleted, nextClientId, smu, packet,
                   fclientId, froom, connClosed, others>>

\* a findOrCreateClient that returns without the entry in s.onlineClients
FocOnlineUnregistered(c) ==
    /\ proc = "running"
    /\ pc[c] = "foc_online"
    /\ Available(ConnNeeds(c))
    /\ events' = [events EXCEPT ![c] = Append(@, "online")]
    /\ pc' = [pc EXCEPT ![c] = "hs_broadcast"]
    /\ UNCHANGED <<registry, smu, packet, client, fclientId, froom, connClosed, others>>

\* lines 295-297, under Server.mu
FocOnline(c) ==
    /\ proc = "running"
    /\ pc[c] = "foc_online"
    /\ Available(ConnNeeds(c))
    /\ onlineClients' = [onlineClients EXCEPT ![fclientId[c]] = froom[c]]
    /\ events' = [events EXCEPT ![c] = Append(@, "online")]
    /\ pc' = [pc EXCEPT ![c] = "hs_broadcast"]
    /\ UNCHANGED <<rooms, gamesCompleted, nextClientId, robj, smu, packet, client,
                   fclientId, froom, connClosed, others>>

\* ------------------------------------------ handleConnection: after resolve
\* client.room.broadcastAllClientState(), under the room's lock
HsBroadcast(c) ==
    /\ proc = "running"
    /\ pc[c] = "hs_broadcast"
    /\ Available(ConnNeeds(c))
    /\ events' = [events EXCEPT ![c] = Append(@, "broadcast")]
    /\ pc' = [pc EXCEPT ![c] = "hs_roomstate"]
    /\ UNCHANGED <<registry, smu, packet, client, fclientId, froom, connClosed, others>>

\* client.sendRoomState(), the snapshot taken under the room's lock; the
\* iteration ends and its locals go out of scope
HsRoomState(c) ==
    /\ proc = "running"
    /\ pc[c] = "hs_roomstate"
    /\ Available(ConnNeeds(c))
    /\ events' = [events EXCEPT ![c] = Append(@, "roomstate")]
    /\ fclientId' = [fclientId EXCEPT ![c] = 0]
    /\ froom' = [froom EXCEPT ![c] = NoRoom]
    /\ NextPacket(c)
    /\ UNCHANGED <<registry, smu, client, connClosed, others>>

\* the log of a connection keeps one entry for a run of dispatches
Logged(log, e) == IF log # << >> /\ log[Len(log)] = e THEN log ELSE Append(log, e)

\* client != nil: client.handlePacket(packet) stores the new state under the
\* session's lock ...
Dispatch(c) ==
    /\ proc = "running"
    /\ pc[c] = "packet"
    /\ packet[c].kind \in Typed
    /\ client[c] # NilClient
    /\ Available(ConnNeeds(c))
    /\ LET r == client[c] IN
          robj' = [robj EXCEPT
              ![r[1]][r[2]].clients[r[3]].state = ClientState(c, r[3])]
    /\ events' = [events EXCEPT ![c] = Logged(@, "dispatch")]
    /\ pc' = [pc EXCEPT ![c] = "handle_broadcast"]
    /\ UNCHANGED <<onlineClients, rooms, gamesCompleted, nextClientId, smu, packet,
                   client, fclientId, froom, connClosed, others>>

\* ... and broadcasts it under the room's lock, which counts as activity of
\* the room
HandleBroadcast(c) ==
    /\ proc = "running"
    /\ pc[c] = "handle_broadcast"
    /\ Available(ConnNeeds(c))
    /\ robj' = [robj EXCEPT ![client[c][1]][client[c][2]].lastActivity = now]
    /\ NextPacket(c)
    /\ UNCHANGED <<onlineClients, rooms, gamesCompleted, nextClientId, smu,
                   client, fclientId, froom, connClosed, events, others>>

\* scanner.Scan() returns false: end of stream or read error
ScanEnd(c) ==
    /\ proc = "running"
    /\ pc[c] = "read"
    /\ IF client[c] = NilClient
       THEN /\ pc' = [pc EXCEPT ![c] = "closed"]
            /\ connClosed' = [connClosed EXCEPT ![c] = TRUE]
       ELSE /\ pc' = [pc EXCEPT ![c] = "disc_conn"]
            /\ UNCHANGED connClosed
    /\ UNCHANGED <<registry, smu, packet, client, fclientId, froom, events, others>>

\* ---------------------------------------------------- Client.disconnect
\* conn.Close() on the handle a session holds (0: it holds none)
CloseHandle(cl) == IF cl = 0 THEN connClosed ELSE [connClosed EXCEPT ![cl] = TRUE]

\* first half: under the session's lock the connection handle is closed and
\* cleared
Disconnected(s) == [s EXCEPT !.conn = 0]

\* second half: under Server.mu the identity leaves the online-client mapping
Offline(online, id) == [online EXCEPT ![id] = NoRoom]

DiscConn(c) ==
    /\ proc = "running"
    /\ pc[c] = "disc_conn"
    /\ Available(ConnNeeds(c))
    /\ connClosed' = CloseHandle(Sess(client[c]).conn)
    /\ robj' = [robj EXCEPT
          ![client[c][1]][client[c][2]].clients[client[c][3]] = Disconnected(@)]
    /\ pc' = [pc EXCEPT ![c] = "disc_online"]
    /\ UNCHANGED <<onlineClients, rooms, gamesCompleted, nextClientId, smu, packet,
                   client, fclientId, froom, events, others>>

DiscOnline(c) ==
    /\ proc = "running"
    /\ pc[c] = "disc_online"
    /\ Available(ConnNeeds(c))
    /\ onlineClients' = Offline(onlineClients, client[c][3])
    /\ events' = [events EXCEPT ![c] = Append(@, "disconnect")]
    /\ pc' = [pc EXCEPT ![c] = "disc_broadcast"]
    /\ UNCHANGED <<rooms, gamesCompleted, nextClientId, robj, smu, packet, client,
                   fclientId, froom, connClosed, others>>

\* client.room.broadcastAllClientState() after the disconnect; deferred conn.Close()
DiscBroadcast(c) ==
    /\ proc = "running"
    /\ pc[c] = "disc_broadcast"
    /\ Available(ConnNeeds(c))
    /\ events' = [events EXCEPT ![c] = Append(@, "broadcast")]
    /\ connClosed' = [connClosed EXCEPT ![c] = TRUE]
    /\ pc' = [pc EXCEPT ![c] = "closed"]
    /\ UNCHANGED <<registry, smu, packet, client, fclientId, froom, others>>

\* ------------------------------------------------------------- saveStats
\* the document built under Server.mu at lines 94-100
Snapshot == [ok |-> TRUE, gamesComplete |-> gamesCompleted, nextClientId |-> nextClientId]

\* statsHeartbeat's ticker fires: saveStats() overwrites stats.json
SaveStats ==
    /\ proc = "running"
    /\ loaded
    /\ Available({ServerLock})
    /\ file' = Snapshot
    /\ UNCHANGED <<proc, now, loaded, supVars, registry, smu, connVars, sweepTodo, hbVars,
                   opVars, dis>>

\* -------------------------------------------------- cleanupInactiveRooms
\* the ticker fires: s.mu.Lock() and the range over s.rooms begins
SweepLock ==
    /\ proc = "running"
    /\ smu # SweepTask
    /\ Available({ServerLock})
    /\ smu' = SweepTask
    /\ sweepTodo' = {r \in RoomIds : rooms[r] # 0}
    /\ UNCHANGED <<envVars, registry, connVars, hbVars, opVars, dis>>

\* a sweep that also takes a room whose age has just reached the timeout
InactiveAtTimeout(room, t) == t - room.lastActivity >= INACTIVITY_TIMEOUT

\* time.Since(lastActivity) > INACTIVITY_TIMEOUT
Inactive(room, t) == t - room.lastActivity > INACTIVITY_TIMEOUT

\* one iteration: room.GetLastActivity() under the room's lock, then the delete
SweepRoom(r) ==
    /\ proc = "running"
    /\ smu = SweepTask
    /\ r \in sweepTodo
    /\ Available({RoomLock(<<r, rooms[r]>>)})
    /\ rooms' = IF Inactive(Room(<<r, rooms[r]>>), now)
                THEN [rooms EXCEPT ![r] = 0] ELSE rooms
    /\ sweepTodo' = sweepTodo \ {r}
    /\ UNCHANGED <<envVars, onlineClients, gamesCompleted, nextClientId, robj, smu,
                   connVars, hbVars, opVars, dis>>

\* the range loop is over: s.mu.Unlock()
SweepUnlock ==
    /\ proc = "running"
    /\ smu = SweepTask
    /\ sweepTodo = {}
    /\ smu' = Free
    /\ UNCHANGED <<envVars, registry, connVars, sweepTodo, hbVars, opVars, dis>>

\* ------------------------------------------------------------- heartbeat
\* the ticker fires: s.mu.Lock() and the range over s.onlineClients begins
HeartbeatLock ==
    /\ proc = "running"
    /\ smu # HeartbeatTask
    /\ Available({ServerLock})
    /\ smu' = HeartbeatTask
    /\ hbTodo' = Online
    /\ UNCHANGED <<envVars, registry, connVars, sweepTodo, hbCur, hbWrite, opVars, dis>>

\* client.mu.Lock()
HeartbeatClient(x) ==
    /\ proc = "running"
    /\ smu = HeartbeatTask
    /\ hbCur = NilClient
    /\ x \in hbTodo
    /\ Available({ClientLock(x)})
    /\ robj' = [robj EXCEPT ![x[1]][x[2]].clients[x[3]].mu = HeartbeatTask]
    /\ hbCur' = x
    /\ hbTodo' = hbTodo \ {x}
    /\ UNCHANGED <<envVars, onlineClients, rooms, gamesCompleted, nextClientId, smu,
                   connVars, sweepTodo, hbWrite, opVars, dis>>

\* time.Since(client.lastActivity) > HEARTBEAT: client.sendPacket(HEARTBEAT)
\* starts writing to the client's connection
HeartbeatWrite ==
    /\ proc = "running"
    /\ hbCur # NilClient
    /\ ~hbWrite
    /\ hbWrite' = TRUE
    /\ UNCHANGED <<envVars, registry, smu, connVars, sweepTodo, hbTodo, hbCur, opVars,
                   dis>>

\* the keep-alive has been sent or was not due; client.mu.Unlock().  Unlocking
\* a mutex that is not locked is a fatal error of the runtime
HeartbeatSend ==
    /\ proc = "running"
    /\ hbCur # NilClient
    /\ IF Sess(hbCur).mu = Free
       THEN /\ proc' = "crashed"
            /\ UNCHANGED <<robj, hbCur, hbWrite>>
       ELSE /\ robj' = [robj EXCEPT ![hbCur[1]][hbCur[2]].clients[hbCur[3]].mu = Free]
            /\ hbCur' = NilClient
            /\ hbWrite' = FALSE
            /\ UNCHANGED proc
    /\ UNCHANGED <<now, file, loaded, supVars, onlineClients, rooms, gamesCompleted,
                   nextClientId, smu, connVars, sweepTodo, hbTodo, opVars, dis>>

\* the range loop is over: s.mu.Unlock()
HeartbeatUnlock ==
    /\ proc = "running"
    /\ smu = HeartbeatTask
    /\ hbTodo = {}
    /\ hbCur = NilClient
    /\ smu' = Free
    /\ UNCHANGED <<envVars, registry, connVars, sweepTodo, hbVars, opVars, dis>>

\* ----------------------------------------------------------------- time
Tick ==
    /\ proc = "running"
    /\ now < MaxTime
    /\ now' = now + 1
    /\ UNCHANGED <<proc, file, loaded, supVars, registry, smu, connVars, sweepTodo, hbVars,
                   opVars, dis>>

\* ---------------------------------------------------------- processStdin
opLocals == <<opRoom, opTodo, opClients, opTarget>>
opFrame == <<envVars, connVars, sweepTodo, hbVars>>

\* roomCount, clientCount, quiet, stats, messageAll: s.mu.Lock(), a body that
\* reads or logs ...
OpQuery ==
    /\ proc = "running"
    /\ opPc = "prompt"
    /\ opLeft > 0
    /\ opLeft' = opLeft - 1
    /\ Available({ServerLock})
    /\ smu' = OpTask
    /\ opPc' = "query"
    /\ UNCHANGED <<opFrame, registry, opLocals, dis>>

\* ... and s.mu.Unlock()
OpQueryDone ==
    /\ proc = "running"
    /\ opPc = "query"
    /\ smu' = Free
    /\ opPc' = "prompt"
    /\ UNCHANGED <<opFrame, registry, opLocals, dis>>
    /\ UNCHANGED opLeft

\* list: s.mu.Lock() and the range over s.rooms begins
ListLock ==
    /\ proc = "running"
    /\ opPc = "prompt"
    /\ opLeft > 0
    /\ opLeft' = opLeft - 1
    /\ Available({ServerLock})
    /\ smu' = OpTask
    /\ opTodo' = Registered
    /\ opPc' = "list"
    /\ UNCHANGED <<opFrame, registry, opRoom, opClients, opTarget, dis>>

\* list: room.mu.Lock() and the range over room.clients begins
ListRoom(ro) ==
    /\ proc = "running"
    /\ opPc = "list"
    /\ ro \in opTodo
    /\ Available({RoomLock(ro)})
    /\ robj' = [robj EXCEPT ![ro[1]][ro[2]].mu = OpTask]
    /\ opRoom' = ro
    /\ opTodo' = opTodo \ {ro}
    /\ opClients' = {SessOf(ro, id) : id \in DOMAIN Room(ro).clients}
    /\ opPc' = "list_room"
    /\ UNCHANGED <<opFrame, onlineClients, rooms, gamesCompleted, nextClientId, smu,
                   opTarget, dis>>
    /\ UNCHANGED opLeft

\* list: client.mu.Lock(), the log line, client.mu.Unlock()
ListClient(x) ==
    /\ proc = "running"
    /\ opPc = "list_room"
    /\ x \in opClients
    /\ Available({ClientLock(x)})
    /\ opClients' = opClients \ {x}
    /\ UNCHANGED <<opFrame, registry, smu, opPc, opRoom, opTodo, opTarget, dis>>
    /\ UNCHANGED opLeft

\* list: room.mu.Unlock()
ListRoomDone ==
    /\ proc = "running"
    /\ opPc = "list_room"
    /\ opClients = {}
    /\ robj' = [robj EXCEPT ![opRoom[1]][opRoom[2]].mu = Free]
    /\ opRoom' = NoRoom
    /\ opPc' = "list"
    /\ UNCHANGED <<opFrame, onlineClients, rooms, gamesCompleted, nextClientId, smu,
                   opTodo, opClients, opTarget, dis>>
    /\ UNCHANGED opLeft

\* list: s.mu.Unlock()
ListUnlock ==
    /\ proc = "running"
    /\ opPc = "list"
    /\ opTodo = {}
    /\ smu' = Free
    /\ opPc' = "prompt"
    /\ UNCHANGED <<opFrame, registry, opLocals, dis>>
    /\ UNCHANGED opLeft

\* a sendDisable goroutine starts: its sends change no state, then
\* client.disconnect() begins
Spawned(x) == <<x, "conn">>

\* disable <id>, message <id>: client := s.onlineClients[id] under Server.mu
Lookup(id, next) ==
    /\ proc = "running"
    /\ opPc = "prompt"
    /\ opLeft > 0
    /\ opLeft' = opLeft - 1
    /\ Available({ServerLock})
    /\ onlineClients[id] # NoRoom
    /\ opTarget' = SessOf(onlineClients[id], id)
    /\ opPc' = next
    /\ UNCHANGED <<opFrame, registry, smu, opRoom, opTodo, opClients, dis>>

Disable(id) == Lookup(id, "disable_1")

\* disable, lines 143 and 145: client.mu.Unlock() with no Lock before it.  The
\* mutex is released from under whoever holds it; if nobody does, the runtime
\* ends the process.  After the second Unlock: go sendDisable(client, ...)
DisableUnlock ==
    /\ proc = "running"
    /\ opPc \in {"disable_1", "disable_2"}
    /\ IF Sess(opTarget).mu = Free
       THEN /\ proc' = "crashed"
            /\ UNCHANGED <<robj, opPc, opTarget, dis>>
       ELSE /\ robj' = [robj EXCEPT
                  ![opTarget[1]][opTarget[2]].clients[opTarget[3]].mu = Free]
            /\ IF opPc = "disable_1"
               THEN /\ opPc' = "disable_2"
                    /\ UNCHANGED <<opTarget, dis>>
               ELSE /\ opPc' = "prompt"
                    /\ opTarget' = NilClient
                    /\ dis' = dis \cup {Spawned(opTarget)}
            /\ UNCHANGED proc
    /\ UNCHANGED <<now, file, loaded, supVars, onlineClients, rooms, gamesCompleted,
                   nextClientId, smu, connVars, sweepTodo, hbVars, opRoom, opTodo,
                   opClients>>
    /\ UNCHANGED opLeft

\* disableAll: go sendDisable for every online client, under Server.mu
DisableAll ==
    /\ proc = "running"
    /\ opPc = "prompt"
    /\ opLeft > 0
    /\ opLeft' = opLeft - 1
    /\ Available({ServerLock})
    /\ Online # {}
    /\ dis' = dis \cup {Spawned(x) : x \in Online}
    /\ UNCHANGED <<opFrame, registry, smu, opPc, opLocals>>

Message(id) == Lookup(id, "message")

\* message, lines 169-172: client.mu.Lock(), the log line, client.mu.Unlock(),
\* go sendServerMessage
MessageLog ==
    /\ proc = "running"
    /\ opPc = "message"
    /\ Available({ClientLock(opTarget)})
    /\ opTarget' = NilClient
    /\ opPc' = "prompt"
    /\ UNCHANGED <<opFrame, registry, smu, opRoom, opTodo, opClients, dis>>
    /\ UNCHANGED opLeft

\* deleteRoom <roomId>: s.mu.Lock(), room := s.rooms[targetRoomID], room != nil
DeleteRoomLock(r) ==
    /\ proc = "running"
    /\ opPc = "prompt"
    /\ opLeft > 0
    /\ opLeft' = opLeft - 1
    /\ Available({ServerLock})
    /\ rooms[r] # 0
    /\ smu' = OpTask
    /\ opRoom' = <<r, rooms[r]>>
    /\ opPc' = "delroom"
    /\ UNCHANGED <<opFrame, registry, opTodo, opClients, opTarget, dis>>

\* deleteRoom: room.mu.Lock() and the range over s.onlineClients begins
DeleteRoomLockRoom ==
    /\ proc = "running"
    /\ opPc = "delroom"
    /\ Available({RoomLock(opRoom)})
    /\ robj' = [robj EXCEPT ![opRoom[1]][opRoom[2]].mu = OpTask]
    /\ opClients' = Online
    /\ opPc' = "delroom_clients"
    /\ UNCHANGED <<opFrame, onlineClients, rooms, gamesCompleted, nextClientId, smu,
                   opRoom, opTodo, opTarget, dis>>
    /\ UNCHANGED opLeft

\* deleteRoom: client.mu.Lock(); go sendDisable if client.room.id == targetRoomID;
\* client.mu.Unlock()
DeleteRoomClient(x) ==
    /\ proc = "running"
    /\ opPc = "delroom_clients"
    /\ x \in opClients
    /\ Available({ClientLock(x)})
    /\ dis' = IF Room(RoomOf(x)).id = opRoom[1] THEN dis \cup {Spawned(x)} ELSE dis
    /\ opClients' = opClients \ {x}
    /\ UNCHANGED <<opFrame, registry, smu, opPc, opRoom, opTodo, opTarget>>
    /\ UNCHANGED opLeft

\* deleteRoom: room.mu.Unlock(), delete(s.rooms, targetRoomID), s.mu.Unlock()
DeleteRoomDone ==
    /\ proc = "running"
    /\ opPc = "delroom_clients"
    /\ opClients = {}
    /\ robj' = [robj EXCEPT ![opRoom[1]][opRoom[2]].mu = Free]
    /\ rooms' = [rooms EXCEPT ![opRoom[1]] = 0]
    /\ smu' = Free
    /\ opRoom' = NoRoom
    /\ opPc' = "prompt"
    /\ UNCHANGED <<opFrame, onlineClients, gamesCompleted, nextClientId, opTodo,
                   opClients, opTarget, dis>>
    /\ UNCHANGED opLeft

\* ------------------------------------------------------------ sendDisable
\* client.disconnect() of a sendDisable goroutine, first half
DisableConn(x) ==
    /\ proc = "running"
    /\ <<x, "conn">> \in dis
    /\ Available({ClientLock(x)})
    /\ connClosed' = CloseHandle(Sess(x).conn)
    /\ robj' = [robj EXCEPT ![x[1]][x[2]].clients[x[3]] = Disconnected(@)]
    /\ dis' = (dis \ {<<x, "conn">>}) \cup {<<x, "online">>}
    /\ UNCHANGED <<envVars, onlineClients, rooms, gamesCompleted, nextClientId, smu,
                   pc, packet, client, fclientId, froom, events, sweepTodo, hbVars,
                   opVars>>

\* client.disconnect() of a sendDisable goroutine, second half
DisableOnline(x) ==
    /\ proc = "running"
    /\ <<x, "online">> \in dis
    /\ Available({ServerLock})
    /\ onlineClients' = Offline(onlineClients, x[3])
    /\ dis' = dis \ {<<x, "online">>}
    /\ UNCHANGED <<envVars, rooms, gamesCompleted, nextClientId, robj, smu, connVars,
                   sweepTodo, hbVars, opVars>>

\* ------------------------------------------------- recover() and errChan
MaxFaults == 1
StatsTask == <<"statsHeartbeat", 0>>
LoadTask == <<"parseStats", 0>>
MaintenanceTasks == {SweepTask, HeartbeatTask, StatsTask, LoadTask}

\* everything but the process, the clock, stats.json and the shutdown
workVars == <<registry, smu, connVars, sweepTodo, hbVars, opVars, dis>>

\* goroutine t panics; its deferred function recovers and blocks in
\* errChan <- err.  Nothing else is deferred in heartbeat, cleanupInactiveRooms
\* and statsHeartbeat but ticker.Stop(): the locks t holds stay locked
Fault(t) ==
    /\ proc = "running"
    /\ t \notin faulted
    /\ Cardinality(faulted) < MaxFaults
    /\ faulted' = faulted \cup {t}
    /\ UNCHANGED <<proc, now, file, received, down, shutlog>>

\* a panic anywhere in the body of heartbeat or cleanupInactiveRooms
LoopFault(t) ==
    /\ Fault(t)
    /\ UNCHANGED <<loaded, workVars>>

\* a panic in saveStats called by statsHeartbeat, between s.mu.Lock() and
\* s.mu.Unlock() (held) or outside them
StatsFault(held) ==
    /\ Fault(StatsTask)
    /\ IF held
       THEN Available({ServerLock}) /\ smu' = StatsTask
       ELSE UNCHANGED smu
    /\ UNCHANGED <<loaded, registry, connVars, sweepTodo, hbVars, opVars, dis>>

\* a panic in parseStats: the deferred s.mu.Unlock() runs before the recover
LoadFault ==
    /\ ~loaded
    /\ Fault(LoadTask)
    /\ loaded' = TRUE
    /\ UNCHANGED workVars

\* a panic while connection c is handled, between two locked sections
ConnFault(c) ==
    /\ pc[c] \notin {"closed", "panicked"}
    /\ Fault(ConnTask(c))
    /\ pc' = [pc EXCEPT ![c] = "panicked"]
    /\ UNCHANGED <<loaded, registry, smu, packet, client, fclientId, froom, connClosed,
                   events, sweepTodo, hbVars, opVars, dis>>

\* the send on errChan has been taken: the deferred conn.Close() runs
ConnFaultEnd(c) ==
    /\ proc = "running"
    /\ pc[c] = "panicked"
    /\ received = ConnTask(c)
    /\ pc' = [pc EXCEPT ![c] = "closed"]
    /\ connClosed' = [connClosed EXCEPT ![c] = TRUE]
    /\ UNCHANGED <<envVars, registry, smu, packet, client, fclientId, froom, events,
                   sweepTodo, hbVars, opVars, dis>>

\* ------------------------------------------------------- main: shutdown
MaxTriggers == 2

\* one step of a shutdown sequence; a sequence starts while fewer than
\* MaxTriggers have
Shut(k, from, to) ==
    /\ proc = "running"
    /\ down[k] = from
    /\ from = "idle" => Cardinality({j \in Triggers : down[j] # "idle"}) < MaxTriggers
    /\ down' = [down EXCEPT ![k] = to]

\* <-sigsCa: SIGINT or SIGTERM arrives
Signal ==
    /\ Shut("signal", "idle", "flush")
    /\ UNCHANGED <<proc, now, file, loaded, faulted, received, shutlog, workVars>>

\* err := <-errChan, read once: the send of one recovered goroutine is taken
ErrReceive(t) ==
    /\ t \in faulted
    /\ received = Free
    /\ received' = t
    /\ Shut("error", "idle", "flush")
    /\ UNCHANGED <<proc, now, file, loaded, faulted, shutlog, workVars>>

\* stop: under Server.mu a sendServerMessage goroutine for every online client
Stop ==
    /\ opPc = "prompt"
    /\ opLeft > 0
    /\ opLeft' = opLeft - 1
    /\ Available({ServerLock})
    /\ opPc' = "stop"
    /\ Shut("stop", "idle", "flush")
    /\ UNCHANGED <<proc, now, file, loaded, faulted, received, shutlog, registry, smu,
                   connVars, sweepTodo, hbVars, opLocals, dis>>

\* server.saveStats()
ShutFlush(k) ==
    /\ Shut(k, "flush", "close")
    /\ Available({ServerLock})
    /\ file' = Snapshot
    /\ shutlog' = Append(shutlog, "flush")
    /\ UNCHANGED <<proc, now, loaded, faulted, received, workVars>>

\* server.listener.Close()
ShutClose(k) ==
    /\ Shut(k, "close", "exit")
    /\ shutlog' = Append(shutlog, "close")
    /\ UNCHANGED <<proc, now, file, loaded, faulted, received, workVars>>

\* os.Exit
ShutExit(k) ==
    /\ Shut(k, "exit", "done")
    /\ proc' = "exited"
    /\ shutlog' = Append(shutlog, "exit")
    /\ UNCHANGED <<now, file, loaded, faulted, received, workVars>>

\* the listener is closed: Accept returns net.ErrClosed, the accept loop
\* breaks, Start returns and so does main
MainReturns ==
    /\ proc = "running"
    /\ \E i \in 1 .. Len(shutlog) : shutlog[i] = "close"
    /\ proc' = "exited"
    /\ shutlog' = Append(shutlog, "exit")
    /\ UNCHANGED <<now, file, loaded, faulted, received, down, workVars>>

\* ------------------------------------------------------------------ spec
\* what a peer may send
PeerPackets == {Packet(k) : k \in {"invalid", "notype", "STATS", "OTHER"}}
                   \cup HandshakePackets

\* handleConnection for the packets of the protocol, drawn from P
Session(c, P) ==
    \/ Scan(c, P)
    \/ ScanEnd(c)
    \/ BeforeHandshake(c)
    \/ Handshake(c)
    \/ FocAllocate(c)
    \/ FocRoom(c)
    \/ FocLockRoom(c)
    \/ FocAttach(c)
    \/ FocOnline(c)
    \/ HsBroadcast(c)
    \/ HsRoomState(c)
    \/ Dispatch(c)
    \/ HandleBroadcast(c)
    \/ DiscConn(c)
    \/ DiscOnline(c)
    \/ DiscBroadcast(c)

\* handleConnection for every packet a peer may send
Connection(c) ==
    \/ Session(c, PeerPackets)
    \/ Malformed(c)
    \/ Stats(c)

\* Start: the load of stats.json and the connection handlers, for every packet
\* a peer may send
Next ==
    \/ ParseStats
    \/ \E c \in Conns : Connection(c)

Spec == Init /\ [][Next]_vars

\* the peer of a run with the maintenance goroutines and the console: a player
\* of room r1 who keeps to the protocol and connects again, as a new player or
\* as player 1, once the previous connection has ended
PlayerPackets ==
    {Packet("OTHER")} \cup
    {p \in HandshakePackets : p.clientId \in {0, 1} /\ p.roomId = "r1" /\ p.teamId = "red"}

Player(c) ==
    /\ \A d \in Conns : d < c => pc[d] = "closed"
    /\ Session(c, PlayerPackets)

\* cleanupInactiveRooms
Sweep ==
    \/ SweepLock
    \/ \E r \in RoomIds : SweepRoom(r)
    \/ SweepUnlock

\* statsHeartbeat, cleanupInactiveRooms and heartbeat
Maintenance ==
    \/ SaveStats
    \/ Sweep
    \/ HeartbeatLock
    \/ \E x \in Sessions : HeartbeatClient(x)
    \/ HeartbeatWrite
    \/ HeartbeatSend
    \/ HeartbeatUnlock

\* processStdin and the sendDisable goroutines it starts
Console ==
    \/ OpQuery
    \/ OpQueryDone
    \/ ListLock
    \/ \E ro \in RoomObjects : ListRoom(ro)
    \/ \E x \in Sessions : ListClient(x)
    \/ ListRoomDone
    \/ ListUnlock
    \/ \E id \in Ids \ {0} : Disable(id)
    \/ DisableUnlock
    \/ DisableAll
    \/ \E id \in Ids \ {0} : Message(id)
    \/ MessageLog
    \/ \E r \in RoomIds : DeleteRoomLock(r)
    \/ DeleteRoomLockRoom
    \/ \E x \in Sessions : DeleteRoomClient(x)
    \/ DeleteRoomDone
    \/ \E x \in Sessions : DisableConn(x)
    \/ \E x \in Sessions : DisableOnline(x)

\* main: Start with its goroutines, and processStdin
NextOps ==
    \/ ParseStats
    \/ \E c \in Conns : Player(c)
    \/ Maintenance
    \/ Console

SpecOps == Init /\ [][NextOps]_vars

\* a player, the clock and the idle-room sweep
NextSweep ==
    \/ ParseStats
    \/ \E c \in Conns : Player(c)
    \/ Sweep
    \/ Tick

SpecSweep == Init /\ [][NextSweep]_vars

\* ---------------------------------------------- spec: faults and shutdown
\* goroutine t has not panicked
Alive(t) == t \notin faulted

\* the maintenance goroutines that are still running
LiveMaintenance ==
    \/ Alive(StatsTask) /\ SaveStats
    \/ Alive(SweepTask) /\ Sweep
    \/ Alive(HeartbeatTask) /\
          (\/ HeartbeatLock
           \/ \E x \in Sessions : HeartbeatClient(x)
           \/ HeartbeatWrite
           \/ HeartbeatSend
           \/ HeartbeatUnlock)

\* a panic in any goroutine that has a recover()
Faults ==
    \/ \E t \in {SweepTask, HeartbeatTask} : LoopFault(t)
    \/ \E held \in BOOLEAN : StatsFault(held)
    \/ LoadFault
    \/ \E c \in Conns : ConnFault(c) \/ ConnFaultEnd(c)

\* the three ways the process is told to stop, and the sequence each one runs
Shutdown ==
    \/ Signal
    \/ \E t \in faulted : ErrReceive(t)
    \/ Stop
    \/ \E k \in Triggers : ShutFlush(k) \/ ShutClose(k) \/ ShutExit(k)
    \/ MainReturns

\* the one connection of a run in which the process is told to stop
Visitor(c) == c = 1 /\ Session(c, PlayerPackets)

NextShutdown ==
    \/ ParseStats
    \/ \E c \in Conns : Visitor(c)
    \/ LiveMaintenance
    \/ Faults
    \/ Shutdown

SpecShutdown == Init /\ [][NextShutdown]_vars

\* ------------------------------------------------------------ lock waits
\* the goroutines that keep a lock from one step to the next
Tasks == {ConnTask(c) : c \in Conns} \cup {SweepTask, HeartbeatTask, OpTask}

Locks == {ServerLock} \cup {RoomLock(ro) : ro \in RoomObjects}
                     \cup {ClientLock(x) : x \in Sessions}

\* the range loops visit a map in any order: each entry yet to be visited may
\* be the one whose lock the loop asks for next
SweepNeeds ==
    IF smu # SweepTask THEN {ServerLock}
    ELSE {RoomLock(<<r, rooms[r]>>) : r \in sweepTodo}

HeartbeatNeeds ==
    IF smu # HeartbeatTask THEN {ServerLock}
    ELSE IF hbCur # NilClient THEN {}
    ELSE {ClientLock(x) : x \in hbTodo}

OpNeeds ==
    CASE opPc = "prompt" -> IF opLeft > 0 THEN {ServerLock} ELSE {}
      [] opPc = "list" -> {RoomLock(ro) : ro \in opTodo}
      [] opPc \in {"list_room", "delroom_clients"} -> {ClientLock(x) : x \in opClients}
      [] opPc = "message" -> {ClientLock(opTarget)}
      [] opPc = "delroom" -> {RoomLock(opRoom)}
      [] OTHER -> {}

Needs(t) ==
    CASE t = SweepTask -> SweepNeeds
      [] t = HeartbeatTask -> HeartbeatNeeds
      [] t = OpTask -> OpNeeds
      [] OTHER -> ConnNeeds(t[2])

Holds(t) == {l \in Locks : Holder(l) = t}
\* ---------------------------------------------------------------- claims
\* a connection whose handshake has been given its identity and is still
\* being resolved
Resolving(c) ==
    pc[c] \in {"foc_room", "foc_rlock", "foc_attach", "foc_online",
               "hs_broadcast", "hs_roomstate"}

\* a connection in its read loop with a session attached
Serving(c) == pc[c] \in {"read", "packet"} /\ client[c] # NilClient /\ ~connClosed[c]

\* C1: handshakes in flight at the same time whose identity field is absent or
\* zero are each given a non-zero identity, different from the identity given
\* to every other one of them
C1_FreshIdsDistinctNonZero ==
    \A c \in Conns :
        (Resolving(c) /\ packet[c].clientId = 0) =>
            /\ fclientId[c] # 0
            /\ \A d \in Conns \ {c} :
                  (Resolving(d) /\ packet[d].clientId = 0) => fclientId[d] # fclientId[c]

\* C2: no two connections that are being served are attached to the same
\* identity
C2_OneConnectionPerIdentity ==
    \A c \in Conns : \A d \in Conns \ {c} :
        (Serving(c) /\ Serving(d)) => client[c][3] # client[d][3]

\* C4: a client identity is a key of the client mapping of at most one
\* registered room
C4_IdentityInOneRoom ==
    \A id \in Ids : Cardinality({ro \in Registered : HasSess(ro, id)}) <= 1

\* C7: the next-identity counter is never zero and no session is ever keyed by
\* identity 0
C7_CounterAndIdsNeverZero ==
    /\ nextClientId # 0
    /\ \A c \in Conns : Resolving(c) => fclientId[c] # 0
    /\ \A r \in RoomIds : \A n \in 1 .. Len(robj[r]) : ~HasSess(<<r, n>>, 0)

\* C8: a load of a missing or unreadable stats.json leaves games-completed at 0
\* and leaves the next-identity counter at the value it had
C8_FailedLoadKeepsDefaults ==
    [][(~loaded /\ loaded' /\ ~file.ok) =>
          (gamesCompleted' = 0 /\ nextClientId' = nextClientId
                               /\ nextClientId' >= InitialNextClientId)]_vars

\* the FocAllocate, FocRoom and FocAttach steps of connection c
AllocStep(c) == pc[c] = "foc_alloc" /\ pc'[c] = "foc_room"
RoomStep(c) == pc[c] = "foc_room" /\ pc'[c] = "foc_rlock"
AttachStep(c) == pc[c] = "foc_attach" /\ pc'[c] = "foc_online"

\* identity id has a session that is resident in the registered room ro, with
\* its connection handle cleared, and id is not in the online-client mapping
ResidentOffline(ro, id) ==
    /\ ro \in Registered
    /\ HasSess(ro, id)
    /\ Room(ro).clients[id].conn = 0
    /\ onlineClients[id] = NoRoom

Discarded(c) ==
    /\ pc[c] = "packet"
    /\ \/ packet[c].kind \in {"invalid", "notype", "STATS"}
       \/ client[c] = NilClient /\ packet[c].kind # "HANDSHAKE"

\* C9: a packet that is not valid JSON or has no type, a STATS packet, and a
\* non-HANDSHAKE packet before the handshake each leave the connection open and
\* in its lifecycle state, leave the registry unchanged, and the read loop goes
\* on to the next packet
C9_DiscardedPacketChangesNothing ==
    [][\A c \in Conns :
          (Discarded(c) /\ pc'[c] # pc[c]) =>
              /\ pc'[c] = "read"
              /\ client'[c] = client[c]
              /\ connClosed'[c] = connClosed[c]
              /\ events'[c] = events[c]
              /\ UNCHANGED <<onlineClients, rooms, gamesCompleted, nextClientId, robj>>
      ]_vars

\* C9 witness: one connection holds a malformed packet before its handshake
\* while another, attached to its session, holds a STATS packet
C9_Witness ==
    \E c \in Conns : \E d \in Conns \ {c} :
        /\ Discarded(c) /\ client[c] = NilClient /\ packet[c].kind = "invalid"
        /\ Discarded(d) /\ Serving(d) /\ packet[d].kind = "STATS"
        /\ onlineClients[client[d][3]] = RoomOf(client[d])

Joined == <<"room", "online", "broadcast", "roomstate">>
Left == <<"disconnect", "broadcast">>
Lifecycles == {Joined \o Left, Joined \o <<"dispatch">> \o Left}
IsPrefix(a, b) == Len(a) <= Len(b) /\ SubSeq(b, 1, Len(a)) = a

\* the events of a connection are in lifecycle order, and a closed connection
\* either never handshook and has none, or has the whole of them
EventsInOrder(c) ==
    /\ \E l \in Lifecycles : IsPrefix(events[c], l)
    /\ pc[c] = "closed" => (events[c] = << >> \/ events[c] \in Lifecycles)
    /\ (pc[c] = "closed" /\ client[c] = NilClient) => events[c] = << >>
    /\ pc[c] \in {"read", "packet"} =>
          (events[c] = << >> <=> client[c] = NilClient)

\* C10: on every connection the handshake registers the session in its room and
\* in the online-client mapping, then a broadcast is issued, then the directed
\* room state, and only then are packets dispatched; at the end of the stream of
\* an attached connection the session leaves the online-client mapping and then
\* a broadcast is issued; a connection that never handshook ends with neither
C10_LifecycleOrder ==
    [][\A c \in Conns :
          /\ EventsInOrder(c)'
          /\ (events'[c] = Append(events[c], "room")) =>
                client'[c][3] \in DOMAIN robj'[client'[c][1]][client'[c][2]].clients
          /\ (events'[c] = Append(events[c], "online")) =>
                onlineClients'[client[c][3]] = RoomOf(client[c])
          /\ (events'[c] = Append(events[c], "disconnect")) =>
                onlineClients'[client[c][3]] = NoRoom
      ]_vars

\* C10 witness: one connection has gone through the whole lifecycle with a
\* dispatched packet, another has ended without a handshake
C10_Witness ==
    \E c \in Conns : \E d \in Conns \ {c} :
        /\ pc[c] = "closed" /\ events[c] = Joined \o <<"dispatch">> \o Left
        /\ pc[d] = "closed" /\ events[d] = << >>

\* C5: every identity in the online-client mapping is a key of the client
\* mapping of exactly one room that is registered in the room mapping
C5_OnlineInOneRegisteredRoom ==
    \A id \in Ids :
        onlineClients[id] # NoRoom =>
            Cardinality({ro \in Registered : HasSess(ro, id)}) = 1

\* no task holds a lock of a level at or below the level of a lock it asks for
LockOrder ==
    \A t \in Tasks : \A h \in Holds(t) : \A l \in Needs(t) : Level(h) < Level(l)

\* task t may be kept waiting by a task of D
WaitsOn(t, D) == \E l \in Needs(t) : Holder(l) \in D

\* no set of tasks in which every task waits for a lock that a task of the set
\* holds
NoDeadlock == \A D \in SUBSET Tasks : D # {} => \E t \in D : ~WaitsOn(t, D)

\* C6: locks are taken in the order registry, room, session: a task that asks
\* for the registry lock holds no room or session lock, and one that asks for a
\* room lock holds no session lock; and no tasks wait on each other's locks
C6_LockOrderNoDeadlock == LockOrder /\ NoDeadlock

\* C6 witness: while the console holds the registry lock and waits for the lock
\* of a room, the connection handler that holds it, two levels deep, is given
\* the lock of the session it reattaches
C6_Witness ==
    \E c \in Conns :
        /\ opPc \in {"list", "delroom"}
        /\ Holds(OpTask) = {ServerLock}
        /\ WaitsOn(OpTask, {ConnTask(c)})
        /\ pc[c] = "foc_attach"
        /\ Holds(ConnTask(c)) = {RoomLock(froom[c])}
        /\ Needs(ConnTask(c)) = {ClientLock(SessOf(froom[c], fclientId[c]))}
        /\ Available(Needs(ConnTask(c)))

\* a step of cleanupInactiveRooms: it takes Server.mu, visits a room, or
\* releases Server.mu
SweepStep ==
    \/ smu # SweepTask /\ smu' = SweepTask
    \/ smu = SweepTask /\ (sweepTodo' # sweepTodo \/ smu' # SweepTask)

\* C11: the idle-room sweep removes from the room mapping every room it finds
\* idle for longer than the inactivity timeout and keeps every other room; it
\* changes nothing but the room mapping: the online-client mapping, the
\* counters, the rooms' contents and every session stay as they are
C11_SweepDeletesExactlyIdleRooms ==
    [][SweepStep =>
          /\ \A r \in RoomIds :
                rooms'[r] =
                    IF smu = SweepTask /\ r \in sweepTodo \ sweepTodo'
                          /\ now - Room(<<r, rooms[r]>>).lastActivity > INACTIVITY_TIMEOUT
                    THEN 0 ELSE rooms[r]
          /\ UNCHANGED <<onlineClients, gamesCompleted, nextClientId, robj>>
      ]_vars

\* C11 witness: a sweep has just visited the rooms and kept room r1, whose
\* activity is inside the window; the room it keeps is the second registered
\* under that id, an earlier sweep having removed the first one, idle, while
\* the session in it stayed as it was
C11_Witness ==
    /\ smu = SweepTask /\ sweepTodo = {}
    /\ rooms["r1"] = 2
    /\ now - Room(<<"r1", 2>>).lastActivity <= INACTIVITY_TIMEOUT
    /\ now - Room(<<"r1", 1>>).lastActivity > INACTIVITY_TIMEOUT
    /\ DOMAIN Room(<<"r1", 1>>).clients # {}

\* C17: a handshake that attaches its client to a room that already holds
\* sessions (a join or a reconnect) refreshes the last-activity time of that
\* room, and the room it attaches to is the one registered under its roomId,
\* also when the sweep has run since the handshake looked the room up
C17_JoinRefreshesRoomActivity ==
    [][\A c \in Conns :
          (AttachStep(c) /\ DOMAIN Room(froom[c]).clients # {}) =>
              /\ robj'[froom[c][1]][froom[c][2]].lastActivity = now
              /\ rooms'[froom[c][1]] = froom[c][2]
      ]_vars

\* C20: a handshake whose clientId is absent or zero is always given a newly
\* constructed session: when it attaches, the room it attaches to holds no
\* session under the identity it was given
C20_ZeroIdentityGetsNewSession ==
    [][\A c \in Conns :
          (AttachStep(c) /\ packet[c].clientId = 0) =>
              ~HasSess(froom[c], fclientId[c])
      ]_vars

\* the session x is served by the live connection d: d is its handle, d is
\* open and d's handler works on x
ServedBy(x, d) ==
    /\ client[d] = x
    /\ Sess(x).conn = d
    /\ ~connClosed[d]

\* C19: when the handler of connection c ends and runs the disconnect of its
\* session, it never closes or clears the handle of a session that a different
\* live connection serves, and never removes from the online-client mapping an
\* identity whose online session a different live connection serves
C19_StaleEndSparesLiveSession ==
    [][\A c \in Conns : \A d \in Conns \ {c} :
          /\ (pc[c] = "disc_conn" /\ pc'[c] = "disc_online"
                  /\ ServedBy(client[c], d)) =>
                 /\ robj'[client[c][1]][client[c][2]].clients[client[c][3]].conn = d
                 /\ ~connClosed'[d]
          /\ (pc[c] = "disc_online" /\ pc'[c] = "disc_broadcast"
                  /\ client[d] # NilClient /\ client[d][3] = client[c][3]
                  /\ ServedBy(client[d], d)
                  /\ onlineClients[client[c][3]] = RoomOf(client[d])) =>
                 onlineClients'[client[c][3]] = onlineClients[client[c][3]]
      ]_vars

\* ------------------------------------------------- spec: readers of the counters
\* a player who also asks for the statistics
ReaderPackets == PlayerPackets \cup {Packet("STATS")}

Reader(c) ==
    /\ \A d \in Conns : d < c => pc[d] = "closed"
    /\ (Session(c, ReaderPackets) \/ Stats(c))

\* connections that ask for STATS while the sweep runs
NextStats == ParseStats \/ (\E c \in Conns : Reader(c)) \/ Sweep \/ Tick

SpecStats == Init /\ [][NextStats]_vars

\* the step of connection c's handler reads or writes the online-client
\* mapping, the room mapping or a counter of the server
RegistryStep(c) ==
    /\ pc'[c] # pc[c]
    /\ \/ pc[c] \in {"foc_alloc", "foc_room", "foc_online", "disc_online"}
       \/ pc[c] = "packet" /\ packet[c].kind = "STATS"

\* C16: every read or write of the registry's mappings and counters is made by
\* a task that holds Server.mu: a connection handler makes one only in a step
\* that can take the lock, so never while another task holds it
C16_RegistryAccessUnderLock ==
    [][\A c \in Conns : RegistryStep(c) => smu = Free]_vars

\* C18: every release of a lock is made by the task that took it and no lock
\* is released twice for one acquisition: a step of the operator console never
\* frees a lock that another task holds, and no Unlock finds its mutex already
\* unlocked (the fatal error that ends the process)
C18_ReleaseOnlyByHolder ==
    [][/\ proc' # "crashed"
       /\ \A l \in Locks :
             (Holder(l) \notin {Free, OpTask} /\ Holder(l)' = Free) => opPc' = opPc
      ]_vars

\* C15: a task that is writing to a client's connection holds neither
\* Server.mu nor a room's lock: while heartbeat's keep-alive is being written
\* heartbeat holds at most the lock of the session it writes to
C15_WriteUnderSessionLockOnly ==
    hbWrite => Holds(HeartbeatTask) \subseteq {ClientLock(hbCur)}

\* C12: whatever shutdown triggers occur, the shutdown sequence runs exactly
\* once and in order: the steps run so far are a prefix of snapshot flush,
\* listener close, process exit
C12_ShutdownOnceInOrder ==
    IsPrefix(shutlog, <<"flush", "close", "exit">>)

\* C13: once the fault of a maintenance goroutine has been reported on errChan
\* the snapshot flush, and with it the close of the listener and the exit, can
\* go ahead: Server.mu is not left locked by the goroutine that has ended
C13_FaultThenShutdownProceeds ==
    \A t \in MaintenanceTasks :
        (received = t /\ down["error"] = "flush") => smu # t

\* C14: a fault raised while a connection is handled never starts the shutdown
\* of the process: the error main takes from errChan is never a connection
\* handler's
C14_ConnectionFaultContained ==
    \A c \in Conns : received # ConnTask(c)

====
